---- MODULE Spec2Model ----
(***************************************************************************)
(* Tiled VAE decode with seam blending: VaeDecoder.forward, blend_v and    *)
(* blend_h of src/testt/test.py.                                           *)
(*                                                                         *)
(* Tensors are 2-D (the batch and channel axes are carried unchanged by    *)
(* every operation of forward).  A pixel value is a symbolic term: the     *)
(* zero the canvas is allocated with, a value of the tile the transform    *)
(* returned for one patch, or the cross-fade a*(1-w) + b*w of two terms.   *)
(* A tensor holds its full shape and its values on the pixel lattice       *)
(* SampleCoords; every index computation of forward maps that lattice to   *)
(* itself (all offsets are multiples of blend_extent).                     *)
(***************************************************************************)
EXTENDS Integers, Sequences, FiniteSets, TLC

\* ---- bounds of the model ------------------------------------------------
MaxSteps == 3
SamplesPerBlock == 2
MaxValue == 2
MaxTrip == 4
MaxSide == 3

\* ---- configuration (forward, "Configuration") -----------------------------
tile_latent_size == 64
vae_scale_factor == 8
tile_sample_size == tile_latent_size * vae_scale_factor
\* tile_overlap_factor = 0.25, kept as the fraction 1/4
tile_overlap_factor_num == 1
tile_overlap_factor_den == 4

\* variant: the stride taken as the overlapping fraction of the tile
overlap_size_of_overlap ==
    (tile_latent_size * tile_overlap_factor_num) \div tile_overlap_factor_den
\* int(tile_latent_size * (1.0 - tile_overlap_factor))
overlap_size ==
    (tile_latent_size * (tile_overlap_factor_den - tile_overlap_factor_num))
        \div tile_overlap_factor_den

\* variant: a strip half as long
blend_extent_halved ==
    (tile_sample_size * tile_overlap_factor_num) \div (2 * tile_overlap_factor_den)
\* int(tile_sample_size * tile_overlap_factor)
blend_extent ==
    (tile_sample_size * tile_overlap_factor_num) \div tile_overlap_factor_den

\* ---- input sizes the model draws from -------------------------------------
MaxDim == tile_latent_size + (MaxSteps - 1) * overlap_size
AllDims == 1..MaxDim
DimResidues == {0, 1, 16, 17}
Dims == {d \in AllDims : (d % overlap_size) \in DimResidues}

\* ---- the pixel lattice ----------------------------------------------------
SampleOffsets ==
    {(k * (blend_extent - 1)) \div (SamplesPerBlock - 1) : k \in 0..(SamplesPerBlock - 1)}
SampleCoords(n) == {y \in 0..(n - 1) : (y % blend_extent) \in SampleOffsets}

Min(a, b) == IF a <= b THEN a ELSE b
Max(a, b) == IF a >= b THEN a ELSE b

\* ---- pixel terms and tensors ----------------------------------------------
ZeroPixel == [kind |-> "zero"]
\* value at (r, c) of the tile the transform returns for the patch at (h, w)
DecPixel(h, w, r, c) == [kind |-> "dec", h |-> h, w |-> w, r |-> r, c |-> c]
\* a * (1 - weight) + b * weight
Lerp(a, b, weight) == [kind |-> "lerp", a |-> a, b |-> b, w |-> weight]

\* a tensor is [rows, cols, at]: its shape and its values on the lattice

\* torch.zeros(..., padded_sample_h, padded_sample_w)
Zeros(rows, cols) ==
    [rows |-> rows, cols |-> cols,
     at |-> [y \in SampleCoords(rows) |-> [x \in SampleCoords(cols) |-> ZeroPixel]]]

\* t[:, :, y0:y1, x0:x1] with Python's clamping of slice bounds
Slice(t, y0, y1, x0, x1) ==
    LET ya == Min(y0, t.rows)
        yb == Max(ya, Min(y1, t.rows))
        xa == Min(x0, t.cols)
        xb == Max(xa, Min(x1, t.cols))
    IN  [rows |-> yb - ya, cols |-> xb - xa,
         at |-> [y \in SampleCoords(yb - ya) |->
                   [x \in SampleCoords(xb - xa) |-> t.at[ya + y][xa + x]]]]

\* variant: a ramp that runs from 0 to 1 inclusive (linspace)
Ramp_inclusive(n) == [len |-> n, at |-> [k \in 0..(n - 1) |-> <<k, n - 1>>]]
\* torch.arange(blend_extent) / blend_extent: entry k is the fraction k/n
Ramp(n) == [len |-> n, at |-> [k \in 0..(n - 1) |-> <<k, n>>]]
weight_v == Ramp(blend_extent)
weight_h == Ramp(blend_extent)

\* ---- padding and step counts ----------------------------------------------
\* variant: the complement to the stride is left out
PadAmount_remainder(dim) == (dim - tile_latent_size) % overlap_size
\* variant: the outer reduction modulo the stride is left out
PadAmount_unreduced(dim) ==
    overlap_size - ((dim - tile_latent_size) % overlap_size)
\* (overlap_size - (dim - tile_latent_size) % overlap_size) % overlap_size
PadAmount(dim) ==
    (overlap_size - ((dim - tile_latent_size) % overlap_size)) % overlap_size

\* variant: the tile size is not taken off before dividing by the stride
NumSteps_from_zero(padded) == (padded \div overlap_size) + 1
\* variant: the first tile is not counted
NumSteps_without_first(padded) == (padded - tile_latent_size) \div overlap_size
\* (padded_latent.shape[k] - tile_latent_size) // overlap_size + 1
NumSteps(padded) == ((padded - tile_latent_size) \div overlap_size) + 1

\* ---- blend functions ------------------------------------------------------
\* result = b.clone(); result[:blend_extent rows] = a[-blend_extent:] * (1 - w) + b[:blend_extent] * w
\* variant: the vertical blend returns the new tile as it is
blend_v_keep_new(a, b, weight) == b
blend_v(a, b, weight) ==
    LET extent == weight.len
    IN  [b EXCEPT !.at =
            [r \in SampleCoords(b.rows) |-> [c \in SampleCoords(b.cols) |->
                IF r < extent
                THEN Lerp(a.at[(a.rows - extent) + r][c], b.at[r][c], weight.at[r])
                ELSE b.at[r][c]]]]

\* variant: the result starts from an empty tile, not from a copy of b
blend_h_from_empty(a, b, weight) ==
    LET extent == weight.len
    IN  [b EXCEPT !.at =
            [r \in SampleCoords(b.rows) |-> [c \in SampleCoords(b.cols) |->
                IF c < extent
                THEN Lerp(a.at[r][(a.cols - extent) + c], b.at[r][c], weight.at[c])
                ELSE ZeroPixel]]]
blend_h(a, b, weight) ==
    LET extent == weight.len
    IN  [b EXCEPT !.at =
            [r \in SampleCoords(b.rows) |-> [c \in SampleCoords(b.cols) |->
                IF c < extent
                THEN Lerp(a.at[r][(a.cols - extent) + c], b.at[r][c], weight.at[c])
                ELSE b.at[r][c]]]]

\* self.vae_decoder(tile_latent) for the patch at (h, w) of the padded latent
DecodedTile(h, w) ==
    [rows |-> tile_sample_size, cols |-> tile_sample_size,
     at |-> [r \in SampleCoords(tile_sample_size) |->
               [c \in SampleCoords(tile_sample_size) |-> DecPixel(h, w, r, c)]]]

\* variant: the write fills only the pixels no tile has written yet
WriteTile_keep_first(cv, tile, h0, w0) ==
    LET InMask(y, x) == /\ h0 <= y /\ y < h0 + tile_sample_size
                        /\ w0 <= x /\ x < w0 + tile_sample_size
    IN  [cv EXCEPT !.at =
            [y \in SampleCoords(cv.rows) |-> [x \in SampleCoords(cv.cols) |->
                IF InMask(y, x) /\ cv.at[y][x] = ZeroPixel
                THEN tile.at[y - h0][x - w0] ELSE cv.at[y][x]]]]
\* variant: the padded tile replaces the canvas, no mask
WriteTile_unmasked(cv, tile, h0, w0) ==
    LET InMask(y, x) == /\ h0 <= y /\ y < h0 + tile_sample_size
                        /\ w0 <= x /\ x < w0 + tile_sample_size
    IN  [cv EXCEPT !.at =
            [y \in SampleCoords(cv.rows) |-> [x \in SampleCoords(cv.cols) |->
                IF InMask(y, x) THEN tile.at[y - h0][x - w0] ELSE ZeroPixel]]]

\* torch.where(mask, F.pad(tile, padding), canvas) with the mask set on the tile's rectangle
WriteTile(cv, tile, h0, w0) ==
    LET InMask(y, x) == /\ h0 <= y /\ y < h0 + tile_sample_size
                        /\ w0 <= x /\ x < w0 + tile_sample_size
    IN  [cv EXCEPT !.at =
            [y \in SampleCoords(cv.rows) |-> [x \in SampleCoords(cv.cols) |->
                IF InMask(y, x) THEN tile.at[y - h0][x - w0] ELSE cv.at[y][x]]]]

\* ---- state ----------------------------------------------------------------
VARIABLES
    pc,               \* position in forward
    latent_height, latent_width,
    pad_h, pad_w,
    padded_h, padded_w,            \* padded_latent.shape[2], [3]
    padded_sample_h, padded_sample_w,
    num_h_steps, num_w_steps,
    i, j,
    canvas,
    decoded_tile,
    final_image,
    calls,            \* history: tile positions the transform was invoked on
    blends,           \* history: blend calls made, <<"v" | "h", h_step, w_step>>
    written,          \* history: tile positions whose canvas write completed
    writers,          \* history: per canvas pixel, the tiles whose write covered it
    failed,           \* history: the tile position whose processing raised, <<>> if none did
    cur,              \* which invocation of forward is running (1 or 2)
    other,            \* the locals of the invocation that is not running
    loop              \* the exported Loop operator of export_test_while_loop.py

vars == <<pc, latent_height, latent_width, pad_h, pad_w, padded_h, padded_w,
          padded_sample_h, padded_sample_w, num_h_steps, num_w_steps, i, j,
          canvas, decoded_tile, final_image, calls, blends, written, writers,
          failed, cur, other, loop>>

\* what no step of a running invocation touches unless it says so
rest == <<failed, cur, other, loop>>

geom == <<latent_height, latent_width, pad_h, pad_w, padded_h, padded_w,
          padded_sample_h, padded_sample_w, num_h_steps, num_w_steps>>

NoTensor == [rows |-> 0, cols |-> 0, at |-> <<>>]
\* no second invocation
NoFrame == [pc |-> "none"]
\* no Loop operator running
NoLoop == [pc |-> "none"]

\* variant: the row offset taken from the column index
h_step_from_j == j * overlap_size
h_step == i * overlap_size
w_step == j * overlap_size
h_start_sample == h_step * vae_scale_factor
w_start_sample == w_step * vae_scale_factor

\* the locals of forward on entry, for a latent of shape in HS x WS
InitLocals(HS, WS) ==
    /\ pc = "setup"
    /\ latent_height \in HS
    /\ latent_width \in WS
    /\ pad_h = 0 /\ pad_w = 0
    /\ padded_h = 0 /\ padded_w = 0
    /\ padded_sample_h = 0 /\ padded_sample_w = 0
    /\ num_h_steps = 0 /\ num_w_steps = 0
    /\ i = 0 /\ j = 0
    /\ canvas = NoTensor
    /\ decoded_tile = NoTensor
    /\ final_image = NoTensor
    /\ calls = <<>>
    /\ blends = <<>>
    /\ written = <<>>
    /\ writers = NoTensor
    /\ failed = <<>>
    /\ loop = NoLoop

\* one invocation
InitWith(HS, WS) ==
    /\ InitLocals(HS, WS)
    /\ cur = 1
    /\ other = NoFrame

Init == InitWith(Dims, Dims)

\* lines 60-74: padding, canvas allocation, step counts
Setup ==
    /\ pc = "setup"
    /\ pad_h' = PadAmount(latent_height)
    /\ pad_w' = PadAmount(latent_width)
    /\ padded_h' = latent_height + pad_h'
    /\ padded_w' = latent_width + pad_w'
    /\ padded_sample_h' = padded_h' * vae_scale_factor
    /\ padded_sample_w' = padded_w' * vae_scale_factor
    /\ canvas' = Zeros(padded_sample_h', padded_sample_w')
    /\ writers' = [rows |-> padded_sample_h', cols |-> padded_sample_w',
                   at |-> [y \in SampleCoords(padded_sample_h') |->
                             [x \in SampleCoords(padded_sample_w') |-> <<>>]]]
    /\ num_h_steps' = NumSteps(padded_h')
    /\ num_w_steps' = NumSteps(padded_w')
    /\ i' = 0 /\ j' = 0
    /\ pc' = "for_i"
    /\ UNCHANGED <<latent_height, latent_width, decoded_tile, final_image, calls, blends, written>>
    /\ UNCHANGED rest

\* line 76: for i in range(num_h_steps)
ForI ==
    /\ pc = "for_i"
    /\ IF i < num_h_steps
       THEN /\ j' = 0
            /\ pc' = "for_j"
       ELSE /\ j' = j
            /\ pc' = "crop"
    /\ UNCHANGED <<geom, i, canvas, decoded_tile, final_image, calls, blends, written, writers>>
    /\ UNCHANGED rest

\* line 80: for j in range(num_w_steps)
ForJ ==
    /\ pc = "for_j"
    /\ IF j < num_w_steps
       THEN /\ i' = i
            /\ pc' = "decode"
       ELSE /\ i' = i + 1
            /\ pc' = "for_i"
    /\ UNCHANGED <<geom, j, canvas, decoded_tile, final_image, calls, blends, written, writers>>
    /\ UNCHANGED rest

\* lines 86-87: cut the patch and call the transform
Decode ==
    /\ pc = "decode"
    /\ decoded_tile' = DecodedTile(h_step, w_step)
    /\ calls' = Append(calls, <<h_step, w_step>>)
    /\ pc' = "blend_v"
    /\ UNCHANGED <<geom, i, j, canvas, final_image, blends, written, writers>>
    /\ UNCHANGED rest

\* the canvas region forward hands to the blend functions (lines 90, 94)
ExistingSlice ==
    Slice(canvas, h_start_sample, h_start_sample + tile_sample_size,
                  w_start_sample, w_start_sample + tile_sample_size)

\* lines 89-91
BlendV ==
    /\ pc = "blend_v"
    /\ IF h_step > 0
       THEN /\ decoded_tile' = blend_v(ExistingSlice, decoded_tile, weight_v)
            /\ blends' = Append(blends, <<"v", h_step, w_step>>)
       ELSE UNCHANGED <<decoded_tile, blends>>
    /\ pc' = "blend_h"
    /\ UNCHANGED <<geom, i, j, canvas, final_image, calls, written, writers>>
    /\ UNCHANGED rest

\* variant: the horizontal blend applied to the transform's raw output
BlendH_raw ==
    /\ pc = "blend_h"
    /\ IF w_step > 0
       THEN /\ decoded_tile' = blend_h(ExistingSlice, DecodedTile(h_step, w_step), weight_h)
            /\ blends' = Append(blends, <<"h", h_step, w_step>>)
       ELSE UNCHANGED <<decoded_tile, blends>>
    /\ pc' = "write"
    /\ UNCHANGED <<geom, i, j, canvas, final_image, calls, written, writers>>
    /\ UNCHANGED rest

\* lines 93-95
BlendH ==
    /\ pc = "blend_h"
    /\ IF w_step > 0
       THEN /\ decoded_tile' = blend_h(ExistingSlice, decoded_tile, weight_h)
            /\ blends' = Append(blends, <<"h", h_step, w_step>>)
       ELSE UNCHANGED <<decoded_tile, blends>>
    /\ pc' = "write"
    /\ UNCHANGED <<geom, i, j, canvas, final_image, calls, written, writers>>
    /\ UNCHANGED rest

\* lines 97-108, then the next iteration of the inner loop
Write ==
    /\ pc = "write"
    /\ canvas' = WriteTile(canvas, decoded_tile, h_start_sample, w_start_sample)
    /\ writers' = [writers EXCEPT !.at =
           [y \in SampleCoords(writers.rows) |-> [x \in SampleCoords(writers.cols) |->
               IF /\ h_start_sample <= y /\ y < h_start_sample + tile_sample_size
                  /\ w_start_sample <= x /\ x < w_start_sample + tile_sample_size
               THEN Append(writers.at[y][x], <<i, j>>)
               ELSE writers.at[y][x]]]]
    /\ written' = Append(written, <<h_step, w_step>>)
    /\ j' = j + 1
    /\ pc' = "for_j"
    /\ UNCHANGED <<geom, i, decoded_tile, final_image, calls, blends>>
    /\ UNCHANGED rest

\* variant: the crop drops the padded rows and columns from the end
CropTo_drop_tail(t) ==
    Slice(t, 0, t.rows - pad_h * vae_scale_factor, 0, t.cols - pad_w * vae_scale_factor)
\* t[:, :, :original_height_out, :original_width_out] (lines 111-113)
CropTo(t) ==
    Slice(t, 0, latent_height * vae_scale_factor, 0, latent_width * vae_scale_factor)
\* variant: the canvas is returned without the crop
Crop_uncropped ==
    /\ pc = "crop"
    /\ final_image' = canvas
    /\ pc' = "done"
    /\ UNCHANGED <<geom, i, j, canvas, decoded_tile, calls, blends, written, writers>>
    /\ UNCHANGED rest
\* lines 110-115: crop and return
Crop ==
    /\ pc = "crop"
    /\ final_image' = CropTo(canvas)
    /\ pc' = "done"
    /\ UNCHANGED <<geom, i, j, canvas, decoded_tile, calls, blends, written, writers>>
    /\ UNCHANGED rest

Next == Setup \/ ForI \/ ForJ \/ Decode \/ BlendV \/ BlendH \/ Write \/ Crop

Spec == Init /\ [][Next]_vars

\* forward is sequential code: every step that is enabled is eventually taken
FairSpec == Spec /\ WF_vars(Next)

\* ---- claims on the decode loop --------------------------------------------
Returned == pc = "done"
TileCoords == SampleCoords(tile_sample_size)
StripCoords == SampleCoords(blend_extent)
original_height_out == latent_height * vae_scale_factor
original_width_out == latent_width * vae_scale_factor

\* C1: when the decode returns, every output pixel of the unpadded region
\* [0, H*scale) x [0, W*scale) was written by the canvas write of at least
\* one decoded tile.
C1_CoverageComplete ==
    Returned =>
        \A y \in SampleCoords(original_height_out) :
            \A x \in SampleCoords(original_width_out) :
                writers.at[y][x] # <<>>

\* C2: the "existing" operand of a blend is never a canvas pixel that is
\* still at its zero-initialised, never-written value.
ReadsUnwritten(t) ==
    /\ t.kind = "lerp"
    /\ \/ t.a = ZeroPixel
       \/ (t.b.kind = "lerp" /\ t.b.a = ZeroPixel)
C2_BlendReadsComposited ==
    (pc \in {"blend_h", "write"}) =>
        \A r \in TileCoords : \A c \in TileCoords :
            ~ReadsUnwritten(decoded_tile.at[r][c])

\* C3: in a tile with row offset > 0, each pixel (r, c) of the first
\* blend_extent rows leaves the vertical blend as
\* existing*(1 - ramp_v[r]) + new*ramp_v[r], existing being the canvas value at
\* that same output pixel (h_start_sample + r, w_start_sample + c).
C3_VerticalCrossFade ==
    (pc = "blend_h" /\ h_step > 0) =>
        \A r \in StripCoords : \A c \in TileCoords :
            decoded_tile.at[r][c] =
                Lerp(canvas.at[h_start_sample + r][w_start_sample + c],
                     DecPixel(h_step, w_step, r, c),
                     weight_v.at[r])

\* C4: the horizontal blend is applied on top of the vertical blend: the value
\* written for pixel (r, c) of the tile at (hs, ws) is t when ws = 0 or
\* c >= blend_extent, and existing_h*(1 - ramp_h[c]) + t*ramp_h[c] otherwise,
\* where t is the raw decoded value when hs = 0 or r >= blend_extent and
\* existing_v*(1 - ramp_v[r]) + new*ramp_v[r] otherwise.
AfterVertical(t, hs, ws, r, c) ==
    IF hs > 0 /\ r < blend_extent
    THEN t.kind = "lerp" /\ t.w = weight_v.at[r] /\ t.b = DecPixel(hs, ws, r, c)
    ELSE t = DecPixel(hs, ws, r, c)
AfterHorizontal(t, hs, ws, r, c) ==
    IF ws > 0 /\ c < blend_extent
    THEN t.kind = "lerp" /\ t.w = weight_h.at[c] /\ AfterVertical(t.b, hs, ws, r, c)
    ELSE AfterVertical(t, hs, ws, r, c)
LastWritten == written[Len(written)]
JustWrote == pc = "for_j" /\ j > 0
C4_BlendOrder ==
    JustWrote =>
        \A r \in TileCoords : \A c \in TileCoords :
            AfterHorizontal(
                canvas.at[LastWritten[1] * vae_scale_factor + r]
                         [LastWritten[2] * vae_scale_factor + c],
                LastWritten[1], LastWritten[2], r, c)
C4_Witness ==
    /\ JustWrote
    /\ LastWritten[1] > 0 /\ LastWritten[2] > 0
    /\ canvas.at[LastWritten[1] * vae_scale_factor][LastWritten[2] * vae_scale_factor].kind = "lerp"
    /\ canvas.at[LastWritten[1] * vae_scale_factor][LastWritten[2] * vae_scale_factor].b.kind = "lerp"

\* C5: for H <= tile_size and W <= tile_size no padding is added, the
\* transform is invoked exactly once, at (0, 0), and no blend is executed.
SmallInput == latent_height <= tile_latent_size /\ latent_width <= tile_latent_size
C5_SingleTileGeometry ==
    (Returned /\ SmallInput) =>
        /\ pad_h = 0 /\ pad_w = 0
        /\ calls = << <<0, 0>> >>
        /\ blends = <<>>

\* C6: for H <= tile_size and W <= tile_size the returned image is the
\* H*scale x W*scale region of one unblended transform result for the patch
\* at (0, 0).
C6_SingleTileResult ==
    (Returned /\ SmallInput) =>
        /\ final_image.rows = original_height_out
        /\ final_image.cols = original_width_out
        /\ \A y \in SampleCoords(original_height_out) :
               \A x \in SampleCoords(original_width_out) :
                   final_image.at[y][x] = DecPixel(0, 0, y, x)

\* C7: the canvas write of a tile changes only the pixels of the tile's
\* rectangle; inside it every pixel takes the blended tile value, outside it
\* every pixel keeps its value, and the canvas keeps its shape.
InTileRect(y, x) ==
    /\ h_start_sample <= y /\ y < h_start_sample + tile_sample_size
    /\ w_start_sample <= x /\ x < w_start_sample + tile_sample_size
WriteFrame ==
    (pc = "write") =>
        /\ canvas'.rows = canvas.rows /\ canvas'.cols = canvas.cols
        /\ \A y \in SampleCoords(canvas.rows) : \A x \in SampleCoords(canvas.cols) :
               canvas'.at[y][x] =
                   IF InTileRect(y, x)
                   THEN decoded_tile.at[y - h_start_sample][x - w_start_sample]
                   ELSE canvas.at[y][x]
C7_WriteFrame == [][WriteFrame]_vars
C7_Witness ==
    /\ pc = "for_j" /\ Len(written) >= 2
    /\ \E y \in SampleCoords(canvas.rows) : \E x \in SampleCoords(canvas.cols) :
           /\ canvas.at[y][x] # ZeroPixel
           /\ ~(\E k \in 1..Len(writers.at[y][x]) :
                    writers.at[y][x][k] = <<i, j - 1>>)

\* C8: the transform is called on the positions (i*overlap_size,
\* j*overlap_size) in row-major order, each once; a call is followed by its
\* canvas write before the next call; the decode returns after exactly
\* num_h_steps * num_w_steps calls, and it does return.
RowMajor(k) ==
    << ((k - 1) \div num_w_steps) * overlap_size,
       ((k - 1) % num_w_steps) * overlap_size >>
InTile == pc \in {"blend_v", "blend_h", "write"}
RowMajorOrder ==
    /\ \A k \in 1..Len(calls) : num_w_steps > 0 /\ calls[k] = RowMajor(k)
    /\ Len(calls) <= num_h_steps * num_w_steps
    /\ Len(written) = (IF InTile THEN Len(calls) - 1 ELSE Len(calls))
    /\ \A k \in 1..Len(written) : written[k] = calls[k]
    /\ Returned => Len(calls) = num_h_steps * num_w_steps
C8_RowMajorIteration == []RowMajorOrder /\ <>Returned
C8_Witness ==
    /\ Returned
    /\ num_h_steps = 2 /\ num_w_steps = 3
    /\ Len(calls) = 6

\* the planning arithmetic alone, over every input dimension up to MaxDim
InitPlan == InitWith(AllDims, Dims) \/ InitWith(Dims, AllDims)
NextPlan == Setup
SpecPlan == InitPlan /\ [][NextPlan]_vars

Planned == pc # "setup"

\* C9: after padding, (padded - tile_latent_size) is an exact multiple of
\* overlap_size on both axes, the integer division of the step count drops no
\* remainder, and the last tile ends exactly on the padded boundary.
ExactAxis(padded, steps) ==
    /\ (padded - tile_latent_size) % overlap_size = 0
    /\ ((padded - tile_latent_size) \div overlap_size) * overlap_size = padded - tile_latent_size
    /\ (steps - 1) * overlap_size + tile_latent_size = padded
C9_ExactTiling ==
    Planned => /\ ExactAxis(padded_h, num_h_steps)
               /\ ExactAxis(padded_w, num_w_steps)
C9_Witness ==
    /\ Planned
    /\ pad_h > 0 /\ num_h_steps >= 2
    /\ padded_h = latent_height + pad_h

\* C10: the pad amount of each axis is the smallest p >= 0 that makes
\* (dim + p - tile_latent_size) divisible by overlap_size; it lies in
\* 0..overlap_size-1 and is 0 when the dimension is already aligned.
MinimalPad(dim, pad) ==
    /\ pad \in 0..(overlap_size - 1)
    /\ (dim + pad - tile_latent_size) % overlap_size = 0
    /\ \A p \in 0..(pad - 1) : (dim + p - tile_latent_size) % overlap_size # 0
    /\ ((dim - tile_latent_size) % overlap_size = 0) => (pad = 0)
C10_MinimalPadding ==
    Planned => /\ MinimalPad(latent_height, pad_h)
               /\ MinimalPad(latent_width, pad_w)
C10_Witness ==
    /\ Planned
    /\ pad_h = overlap_size - 1
    /\ pad_w = 0 /\ latent_width > tile_latent_size

\* C11: at every tile position the loop visits, the input patch lies inside
\* the padded latent (so it is tile_latent_size x tile_latent_size), the canvas
\* rectangle read and written lies inside the canvas, and the four pad
\* amounts that embed the tile into the canvas are >= 0.
AtTile == pc \in {"decode", "blend_v", "blend_h", "write"}
PatchRows == Min(h_step + tile_latent_size, padded_h) - Min(h_step, padded_h)
PatchCols == Min(w_step + tile_latent_size, padded_w) - Min(w_step, padded_w)
\* the padding tuple of line 99: (left, right, top, bottom)
TilePadding ==
    << w_start_sample, padded_sample_w - w_start_sample - tile_sample_size,
       h_start_sample, padded_sample_h - h_start_sample - tile_sample_size >>
C11_InBounds ==
    AtTile =>
        /\ h_step >= 0 /\ h_step + tile_latent_size <= padded_h
        /\ w_step >= 0 /\ w_step + tile_latent_size <= padded_w
        /\ PatchRows = tile_latent_size /\ PatchCols = tile_latent_size
        /\ canvas.rows = padded_sample_h /\ canvas.cols = padded_sample_w
        /\ h_start_sample + tile_sample_size <= canvas.rows
        /\ w_start_sample + tile_sample_size <= canvas.cols
        /\ ExistingSlice.rows = tile_sample_size
        /\ ExistingSlice.cols = tile_sample_size
        /\ \A k \in 1..4 : TilePadding[k] >= 0
C11_Witness ==
    /\ pc = "write"
    /\ i = num_h_steps - 1 /\ j = num_w_steps - 1
    /\ i > 0 /\ j > 0
    /\ pad_h > 0 /\ pad_w > 0
    /\ TilePadding[2] = 0 /\ TilePadding[4] = 0

\* C12: the returned image is exactly (H*scale) x (W*scale), each of its
\* pixels is the final canvas pixel at the same coordinates, and the crop
\* leaves the canvas as it was.
CropIsPrefix ==
    Returned =>
        /\ final_image.rows = original_height_out
        /\ final_image.cols = original_width_out
        /\ DOMAIN final_image.at = SampleCoords(original_height_out)
        /\ \A y \in SampleCoords(original_height_out) :
               /\ DOMAIN final_image.at[y] = SampleCoords(original_width_out)
               /\ \A x \in SampleCoords(original_width_out) :
                      final_image.at[y][x] = canvas.at[y][x]
C12_Crop == []CropIsPrefix /\ [][pc = "crop" => canvas' = canvas]_vars
C12_Witness ==
    /\ Returned
    /\ pad_h > 0 /\ pad_w > 0
    /\ final_image.rows < canvas.rows /\ final_image.cols < canvas.cols
    /\ written # <<>>

\* ---- the two concrete scenarios of the configuration ----------------------
ScenarioDims == {100, 256}
InitScenario == InitWith(ScenarioDims, ScenarioDims)
SpecScenario == InitScenario /\ [][Next]_vars

Configured ==
    /\ tile_latent_size = 64 /\ vae_scale_factor = 8
    /\ tile_overlap_factor_num * 4 = tile_overlap_factor_den

\* C17: a 256 x 256 latent gets no padding, 5 steps per axis, exactly 25
\* transform calls, and a 2048 x 2048 canvas and returned image.
Is256 == latent_height = 256 /\ latent_width = 256
C17_Scenario256 ==
    Is256 =>
        /\ Configured
        /\ Planned => /\ pad_h = 0 /\ pad_w = 0
                      /\ num_h_steps = 5 /\ num_w_steps = 5
                      /\ canvas.rows = 2048 /\ canvas.cols = 2048
        /\ Len(calls) <= 25
        /\ Returned => /\ Len(calls) = 25
                       /\ Cardinality({calls[k] : k \in 1..Len(calls)}) = 25
                       /\ final_image.rows = 2048 /\ final_image.cols = 2048
C17_Witness == Is256 /\ Returned /\ Len(written) = 25

\* C18: a 100 x 100 latent is padded by 12 to 112 x 112, takes 2 steps per
\* axis (4 transform calls), has an 896 x 896 canvas and returns 800 x 800.
Is100 == latent_height = 100 /\ latent_width = 100
C18_Scenario100 ==
    Is100 =>
        /\ Configured
        /\ Planned => /\ pad_h = 12 /\ pad_w = 12
                      /\ padded_h = 112 /\ padded_w = 112
                      /\ num_h_steps = 2 /\ num_w_steps = 2
                      /\ canvas.rows = 896 /\ canvas.cols = 896
        /\ Len(calls) <= 4
        /\ Returned => /\ Len(calls) = 4
                       /\ final_image.rows = 800 /\ final_image.cols = 800
C18_Witness == Is100 /\ Returned /\ Len(written) = 4

\* C19: once forward has computed them, each ramp has exactly blend_extent entries, entry k is k/blend_extent,
\* so it starts at 0, increases strictly, ends at (blend_extent-1)/blend_extent
\* below 1; the vertical and the horizontal ramp are equal.
FracEq(p, q) == p[1] * q[2] = q[1] * p[2]
FracLess(p, q) == p[1] * q[2] < q[1] * p[2]
RampShape(w) ==
    /\ w.len = blend_extent
    /\ DOMAIN w.at = 0..(blend_extent - 1)
    /\ \A k \in DOMAIN w.at : w.at[k][2] > 0 /\ FracEq(w.at[k], <<k, blend_extent>>)
    /\ FracEq(w.at[0], <<0, 1>>)
    /\ \A k \in 1..(blend_extent - 1) : FracLess(w.at[k - 1], w.at[k])
    /\ FracEq(w.at[blend_extent - 1], <<blend_extent - 1, blend_extent>>)
    /\ FracLess(w.at[blend_extent - 1], <<1, 1>>)
C19_RampShape ==
    Planned =>
        /\ RampShape(weight_v)
        /\ RampShape(weight_h)
        /\ weight_v.at = weight_h.at
C19_Witness ==
    /\ pc = "write" /\ h_step > 0 /\ w_step > 0
    /\ decoded_tile.at[blend_extent - 1][blend_extent - 1].w = weight_h.at[blend_extent - 1]
    /\ decoded_tile.at[blend_extent - 1][blend_extent - 1].b.w = weight_v.at[blend_extent - 1]

\* C20: in every run of forward, overlap_size = floor(64 * 3/4) = 48 lies strictly between 0 and
\* tile_size, and blend_extent = floor(512 * 1/4) = 128 does not exceed
\* overlap_size * scale_factor = 384.
C20_ConfigInvariants ==
    Planned =>
        /\ Configured
        /\ overlap_size = 48
        /\ 0 < overlap_size /\ overlap_size < tile_latent_size
        /\ blend_extent = 128
        /\ overlap_size * vae_scale_factor = 384
        /\ blend_extent <= overlap_size * vae_scale_factor
C20_Witness ==
    /\ pc = "blend_v"
    /\ h_step = overlap_size /\ w_step = overlap_size
    /\ ExistingSlice.rows - blend_extent = overlap_size * vae_scale_factor

\* ---- a transform call that raises ------------------------------------------
\* variant: the exception is caught and the tile skipped
DecodeFails_swallowed ==
    /\ pc = "decode"
    /\ failed' = <<h_step, w_step>>
    /\ calls' = Append(calls, <<h_step, w_step>>)
    /\ j' = j + 1
    /\ pc' = "for_j"
    /\ UNCHANGED <<geom, i, canvas, decoded_tile, final_image, blends, written, writers>>
    /\ UNCHANGED <<cur, other, loop>>

\* line 87 raises: forward has no handler, the exception leaves forward
DecodeFails ==
    /\ pc = "decode"
    /\ failed' = <<h_step, w_step>>
    /\ calls' = Append(calls, <<h_step, w_step>>)
    /\ pc' = "raised"
    /\ UNCHANGED <<geom, i, j, canvas, decoded_tile, final_image, blends, written, writers>>
    /\ UNCHANGED <<cur, other, loop>>

NextFail ==
    Setup \/ ForI \/ ForJ \/ Decode \/ DecodeFails \/ BlendV \/ BlendH \/ Write \/ Crop
SpecFail == Init /\ [][NextFail]_vars

\* C14: once a transform call has failed, the decode has ended with that
\* error: the failed call is the last call, its tile is not written, nothing
\* is decoded or written afterwards, and no image is returned.
HasFailed == failed # <<>>
AbortedState ==
    HasFailed =>
        /\ pc = "raised"
        /\ final_image = NoTensor
        /\ calls[Len(calls)] = failed
        /\ Len(written) = Len(calls) - 1
AbortedStep ==
    HasFailed => UNCHANGED <<pc, calls, written, canvas, final_image>>
C14_FailureAborts == []AbortedState /\ [][AbortedStep]_vars
C14_Witness ==
    /\ HasFailed
    /\ Len(written) > 0
    /\ Len(written) < num_h_steps * num_w_steps - 1
    /\ canvas # Zeros(padded_sample_h, padded_sample_w)

\* ---- two invocations of forward, interleaved -------------------------------
\* the locals of the running invocation
Frame ==
    [pc |-> pc,
     latent_height |-> latent_height,
     latent_width |-> latent_width,
     pad_h |-> pad_h,
     pad_w |-> pad_w,
     padded_h |-> padded_h,
     padded_w |-> padded_w,
     padded_sample_h |-> padded_sample_h,
     padded_sample_w |-> padded_sample_w,
     num_h_steps |-> num_h_steps,
     num_w_steps |-> num_w_steps,
     i |-> i,
     j |-> j,
     canvas |-> canvas,
     decoded_tile |-> decoded_tile,
     final_image |-> final_image,
     calls |-> calls,
     blends |-> blends,
     written |-> written,
     writers |-> writers,
     failed |-> failed]

\* the locals of an invocation that has not started, for an H x W latent
InitialFrame(H, W) ==
    [pc |-> "setup", latent_height |-> H, latent_width |-> W,
     pad_h |-> 0, pad_w |-> 0, padded_h |-> 0, padded_w |-> 0,
     padded_sample_h |-> 0, padded_sample_w |-> 0,
     num_h_steps |-> 0, num_w_steps |-> 0, i |-> 0, j |-> 0,
     canvas |-> NoTensor, decoded_tile |-> NoTensor, final_image |-> NoTensor,
     calls |-> <<>>, blends |-> <<>>, written |-> <<>>, writers |-> NoTensor,
     failed |-> <<>>]

\* variant: the canvas is one buffer kept on the module, not a local
Switch_shared_canvas ==
    /\ other.pc # "none"
    /\ cur' = 3 - cur
    /\ other' = Frame
    /\ pc' = other.pc
    /\ latent_height' = other.latent_height
    /\ latent_width' = other.latent_width
    /\ pad_h' = other.pad_h
    /\ pad_w' = other.pad_w
    /\ padded_h' = other.padded_h
    /\ padded_w' = other.padded_w
    /\ padded_sample_h' = other.padded_sample_h
    /\ padded_sample_w' = other.padded_sample_w
    /\ num_h_steps' = other.num_h_steps
    /\ num_w_steps' = other.num_w_steps
    /\ i' = other.i
    /\ j' = other.j
    /\ canvas' = canvas
    /\ decoded_tile' = other.decoded_tile
    /\ final_image' = other.final_image
    /\ calls' = other.calls
    /\ blends' = other.blends
    /\ written' = other.written
    /\ writers' = other.writers
    /\ failed' = other.failed
    /\ loop' = loop

\* variant: the loop indices are kept on the module, not as locals
Switch_shared_indices ==
    /\ other.pc # "none"
    /\ cur' = 3 - cur
    /\ other' = Frame
    /\ pc' = other.pc
    /\ latent_height' = other.latent_height
    /\ latent_width' = other.latent_width
    /\ pad_h' = other.pad_h
    /\ pad_w' = other.pad_w
    /\ padded_h' = other.padded_h
    /\ padded_w' = other.padded_w
    /\ padded_sample_h' = other.padded_sample_h
    /\ padded_sample_w' = other.padded_sample_w
    /\ num_h_steps' = other.num_h_steps
    /\ num_w_steps' = other.num_w_steps
    /\ i' = i
    /\ j' = j
    /\ canvas' = other.canvas
    /\ decoded_tile' = other.decoded_tile
    /\ final_image' = other.final_image
    /\ calls' = other.calls
    /\ blends' = other.blends
    /\ written' = other.written
    /\ writers' = other.writers
    /\ failed' = other.failed
    /\ loop' = loop

\* the other invocation runs next: every local of forward (canvas, indices,
\* decoded tile, ...) belongs to its own invocation
Switch ==
    /\ other.pc # "none"
    /\ cur' = 3 - cur
    /\ other' = Frame
    /\ pc' = other.pc
    /\ latent_height' = other.latent_height
    /\ latent_width' = other.latent_width
    /\ pad_h' = other.pad_h
    /\ pad_w' = other.pad_w
    /\ padded_h' = other.padded_h
    /\ padded_w' = other.padded_w
    /\ padded_sample_h' = other.padded_sample_h
    /\ padded_sample_w' = other.padded_sample_w
    /\ num_h_steps' = other.num_h_steps
    /\ num_w_steps' = other.num_w_steps
    /\ i' = other.i
    /\ j' = other.j
    /\ canvas' = other.canvas
    /\ decoded_tile' = other.decoded_tile
    /\ final_image' = other.final_image
    /\ calls' = other.calls
    /\ blends' = other.blends
    /\ written' = other.written
    /\ writers' = other.writers
    /\ failed' = other.failed
    /\ loop' = loop

PairDims == {64, 112}
InitPair ==
    /\ InitLocals(PairDims, PairDims)
    /\ cur = 1
    /\ other \in {InitialFrame(H, W) : H \in PairDims, W \in PairDims}
NextPair ==
    Setup \/ ForI \/ ForJ \/ Decode \/ BlendV \/ BlendH \/ Write \/ Crop \/ Switch

SpecPair == InitPair /\ [][NextPair]_vars

\* two invocations on latents of the same shape
TwinDims == {16, 64, 100}
InitTwin ==
    /\ InitLocals(TwinDims, TwinDims)
    /\ cur = 1
    /\ other = InitialFrame(latent_height, latent_width)
SpecTwin == InitTwin /\ [][NextPair]_vars

\* forward as one function of the latent's shape: the canvas after the loop
\* has composited tiles k .. n-1 in row-major order onto cv
RECURSIVE Composite(_, _, _, _)
Composite(cv, k, n, nw) ==
    IF k >= n THEN cv
    ELSE LET hs == (k \div nw) * overlap_size
             ws == (k % nw) * overlap_size
             h0 == hs * vae_scale_factor
             w0 == ws * vae_scale_factor
             ex == Slice(cv, h0, h0 + tile_sample_size, w0, w0 + tile_sample_size)
             d0 == DecodedTile(hs, ws)
             d1 == IF hs > 0 THEN blend_v(ex, d0, weight_v) ELSE d0
             d2 == IF ws > 0 THEN blend_h(ex, d1, weight_h) ELSE d1
         IN  Composite(WriteTile(cv, d2, h0, w0), k + 1, n, nw)

AloneCanvas(H, W) ==
    LET ph == H + PadAmount(H)
        pw == W + PadAmount(W)
        nh == NumSteps(ph)
        nw == NumSteps(pw)
    IN  Composite(Zeros(ph * vae_scale_factor, pw * vae_scale_factor), 0,
                  IF nh > 0 /\ nw > 0 THEN nh * nw ELSE 0, nw)

\* what forward returns for an H x W latent when it runs on its own
AloneImage(H, W) ==
    Slice(AloneCanvas(H, W), 0, H * vae_scale_factor, 0, W * vae_scale_factor)

\* C13: two executions on latents of the same shape call the transform on the
\* same sequence of tile positions, hold the same canvas after the same number
\* of writes, and return the same image.
SameInput ==
    /\ other.pc # "none"
    /\ other.latent_height = latent_height
    /\ other.latent_width = latent_width
ShorterCalls == Min(Len(calls), Len(other.calls))
C13_Determinism ==
    SameInput =>
        /\ \A k \in 1..ShorterCalls : calls[k] = other.calls[k]
        /\ (Planned /\ other.pc # "setup" /\ Len(written) = Len(other.written))
               => canvas = other.canvas
        /\ (Returned /\ other.pc = "done")
               => /\ final_image = other.final_image
                  /\ calls = other.calls
                  /\ written = other.written
C13_Witness ==
    /\ SameInput
    /\ Returned /\ other.pc = "done"
    /\ Len(calls) = 4 /\ Len(blends) = 4
    /\ cur = 1

\* C16: each invocation has its own canvas: a step of the running invocation
\* leaves every local of the other one (its canvas included) unchanged, an
\* invocation resumes with exactly the canvas it was suspended with, Setup
\* allocates a fresh zero canvas, and each invocation returns the image it
\* returns when it runs alone.
\* (the suspended invocation is covered too: Switch makes it the running one)
IsolatedResult ==
    Returned => final_image = AloneImage(latent_height, latent_width)
IsolatedStep ==
    /\ (cur' = cur) => (other' = other)
    /\ (cur' # cur) => (canvas' = other.canvas /\ other'.canvas = canvas)
    /\ (cur' = cur /\ pc = "setup") => canvas' = Zeros(padded_sample_h', padded_sample_w')
C16_CanvasIsolation == []IsolatedResult /\ [][IsolatedStep]_vars
C16_Witness ==
    /\ Returned /\ written # <<>>
    /\ other.pc = "blend_h" /\ other.written # <<>>
    /\ other.canvas.rows # canvas.rows
    /\ other.canvas # Zeros(other.padded_sample_h, other.padded_sample_w)

\* ---- a transform that returns a tile of another shape ----------------------
\* shapes the transform may return on each axis
TileShapes == {1, blend_extent, tile_sample_size, tile_sample_size + blend_extent}

\* torch broadcasting of one dimension; -1 when the sizes are incompatible
Bcast(a, b) ==
    IF a = -1 \/ b = -1 THEN -1
    ELSE IF a = b THEN a
    ELSE IF a = 1 THEN b
    ELSE IF b = 1 THEN a
    ELSE -1
\* result[...slice of size target...] = value of size value
AssignFits(target, value) == value # -1 /\ (value = target \/ value = 1)

\* blend_v lines 15-20: a[-extent:] * (1 - w) + b[:extent] * w assigned to result[:extent]
BlendVFits(a, b, weight) ==
    LET a_rows == Min(weight.len, a.rows)
        b_rows == Min(weight.len, b.rows)
        rows == Bcast(Bcast(a_rows, weight.len), Bcast(b_rows, weight.len))
        cols == Bcast(a.cols, b.cols)
    IN  AssignFits(b_rows, rows) /\ AssignFits(b.cols, cols)

\* blend_h lines 27-32
BlendHFits(a, b, weight) ==
    LET a_cols == Min(weight.len, a.cols)
        b_cols == Min(weight.len, b.cols)
        cols == Bcast(Bcast(a_cols, weight.len), Bcast(b_cols, weight.len))
        rows == Bcast(a.rows, b.rows)
    IN  AssignFits(b.rows, rows) /\ AssignFits(b_cols, cols)

\* F.pad(decoded_tile, padding): the shape of padded_tile (line 101)
PaddedTileRows(tile) == tile.rows + TilePadding[3] + TilePadding[4]
PaddedTileCols(tile) == tile.cols + TilePadding[1] + TilePadding[2]

\* torch.where(mask, padded_tile, canvas) broadcasts its three arguments (line 108)
WhereFits(cv, tile) ==
    /\ Bcast(cv.rows, PaddedTileRows(tile)) = cv.rows
    /\ Bcast(cv.cols, PaddedTileCols(tile)) = cv.cols

\* the value torch.where takes from the zero-padded, broadcast tile at (y, x)
PaddedTileAt(tile, y, x) ==
    LET yy == IF PaddedTileRows(tile) = 1 THEN 0 ELSE y
        xx == IF PaddedTileCols(tile) = 1 THEN 0 ELSE x
        r == yy - TilePadding[3]
        c == xx - TilePadding[1]
    IN  IF r >= 0 /\ r < tile.rows /\ c >= 0 /\ c < tile.cols
        THEN tile.at[r][c]
        ELSE ZeroPixel

\* a torch shape error leaves forward as an exception
RaiseShape ==
    /\ failed' = <<h_step, w_step>>
    /\ pc' = "raised"
    /\ UNCHANGED <<geom, i, j, canvas, decoded_tile, final_image, calls, blends,
                   written, writers, cur, other, loop>>

\* lines 86-87 with a transform free to return any of the shapes
DecodeShaped ==
    /\ pc = "decode"
    /\ \E th \in TileShapes : \E tw \in TileShapes :
           decoded_tile' =
               [rows |-> th, cols |-> tw,
                at |-> [r \in SampleCoords(th) |->
                          [c \in SampleCoords(tw) |-> DecPixel(h_step, w_step, r, c)]]]
    /\ calls' = Append(calls, <<h_step, w_step>>)
    /\ pc' = "blend_v"
    /\ UNCHANGED <<geom, i, j, canvas, final_image, blends, written, writers>>
    /\ UNCHANGED rest

\* lines 89-91
BlendVShaped ==
    /\ pc = "blend_v"
    /\ IF h_step > 0 /\ ~BlendVFits(ExistingSlice, decoded_tile, weight_v)
       THEN RaiseShape
       ELSE BlendV

\* lines 93-95
BlendHShaped ==
    /\ pc = "blend_h"
    /\ IF w_step > 0 /\ ~BlendHFits(ExistingSlice, decoded_tile, weight_h)
       THEN RaiseShape
       ELSE BlendH

\* lines 97-108
WriteShaped ==
    /\ pc = "write"
    /\ IF ~WhereFits(canvas, decoded_tile)
       THEN RaiseShape
       ELSE /\ canvas' = [canvas EXCEPT !.at =
                   [y \in SampleCoords(canvas.rows) |-> [x \in SampleCoords(canvas.cols) |->
                       IF InTileRect(y, x) THEN PaddedTileAt(decoded_tile, y, x)
                                           ELSE canvas.at[y][x]]]]
            /\ writers' = [writers EXCEPT !.at =
                   [y \in SampleCoords(writers.rows) |-> [x \in SampleCoords(writers.cols) |->
                       IF InTileRect(y, x) THEN Append(writers.at[y][x], <<i, j>>)
                                           ELSE writers.at[y][x]]]]
            /\ written' = Append(written, <<h_step, w_step>>)
            /\ j' = j + 1
            /\ pc' = "for_j"
            /\ UNCHANGED <<geom, i, decoded_tile, final_image, calls, blends>>
            /\ UNCHANGED rest

ShapeDims == {64, 112}
InitShape == InitWith(ShapeDims, ShapeDims)
NextShape ==
    Setup \/ ForI \/ ForJ \/ DecodeShaped \/ BlendVShaped \/ BlendHShaped
        \/ WriteShaped \/ Crop
SpecShape == InitShape /\ [][NextShape]_vars

\* C15: a tile whose spatial size is not tile_size*scale_factor on both axes
\* makes the decode fail: once its processing is over the invocation has
\* raised; the tile is never written into the canvas and no image is returned.
Mismatched(t) ==
    /\ t # NoTensor
    /\ (t.rows # tile_sample_size \/ t.cols # tile_sample_size)
C15_ShapeMismatchFatal ==
    (Mismatched(decoded_tile) /\ ~InTile) => pc = "raised"

\* ---- a transform with numeric output ---------------------------------------
\* a pixel holding the number v
NumPixel(v) == [kind |-> "num", v |-> v]
TileValues == 0..MaxValue

\* lines 86-87 with a transform that returns a tile filled with one number
DecodeNumeric ==
    /\ pc = "decode"
    /\ \E v \in TileValues :
           decoded_tile' =
               [rows |-> tile_sample_size, cols |-> tile_sample_size,
                at |-> [r \in SampleCoords(tile_sample_size) |->
                          [c \in SampleCoords(tile_sample_size) |-> NumPixel(v)]]]
    /\ calls' = Append(calls, <<h_step, w_step>>)
    /\ pc' = "blend_v"
    /\ UNCHANGED <<geom, i, j, canvas, final_image, blends, written, writers>>
    /\ UNCHANGED rest

NumericDims == {64, 112}
InitNumeric == InitWith(NumericDims, NumericDims)
NextNumeric ==
    Setup \/ ForI \/ ForJ \/ DecodeNumeric \/ BlendV \/ BlendH \/ Write \/ Crop
SpecNumeric == InitNumeric /\ [][NextNumeric]_vars

\* the number a pixel term stands for, as the numerator over blend_extent^d
\* (a * (1 - k/m) + b * k/m = (a * (m - k) + b * k) / m)
RECURSIVE Value(_, _)
Value(t, d) ==
    IF t.kind = "zero" THEN 0
    ELSE IF t.kind = "num" THEN t.v * (blend_extent ^ d)
    ELSE Value(t.a, d - 1) * (t.w[2] - t.w[1]) + Value(t.b, d - 1) * t.w[1]

\* the value the transform returned for a pixel of a blended tile: the "new"
\* operand of its cross-fades
RECURSIVE NewOperand(_)
NewOperand(t) == IF t.kind = "lerp" THEN NewOperand(t.b) ELSE t
RawTile ==
    [decoded_tile EXCEPT !.at =
        [r \in TileCoords |-> [c \in TileCoords |-> NewOperand(decoded_tile.at[r][c])]]]

\* the same tile blended horizontally first, vertically second
SwappedOrderTile ==
    blend_v(ExistingSlice, blend_h(ExistingSlice, RawTile, weight_h), weight_v)

BothBlended == pc = "write" /\ h_step > 0 /\ w_step > 0
ExistingV(r, c) == ExistingSlice.at[(tile_sample_size - blend_extent) + r][c]
ExistingH(r, c) == ExistingSlice.at[r][(tile_sample_size - blend_extent) + c]

\* C21: the two blend orders are not interchangeable: for a tile that gets
\* both blends, at every pixel of the top-left corner square where the canvas
\* values read by the vertical and by the horizontal blend differ, vertical-
\* then-horizontal (what forward does) and horizontal-then-vertical give
\* different values; such canvas contents and tile exist.
C21_BlendOrderMatters ==
    BothBlended =>
        \A r \in StripCoords : \A c \in StripCoords :
            (Value(ExistingV(r, c), 1) # Value(ExistingH(r, c), 1)) =>
                Value(decoded_tile.at[r][c], 2) # Value(SwappedOrderTile.at[r][c], 2)
C21_Witness ==
    /\ BothBlended
    /\ \E r \in StripCoords : \E c \in StripCoords :
           /\ ExistingV(r, c).kind = "num" /\ ExistingH(r, c).kind = "num"
           /\ Value(decoded_tile.at[r][c], 2) # Value(SwappedOrderTile.at[r][c], 2)

\* C22: blend_v returns the new tile unchanged in every row at offset >=
\* blend_extent, blend_h returns it unchanged in every column at offset >=
\* blend_extent, and neither changes the canvas region it is given; so a tile
\* pixel with row and column offset >= blend_extent reaches the canvas with
\* the raw decoded value.
BlendVFrame ==
    (pc = "blend_v") =>
        /\ canvas' = canvas
        /\ decoded_tile'.rows = decoded_tile.rows /\ decoded_tile'.cols = decoded_tile.cols
        /\ \A r \in TileCoords : \A c \in TileCoords :
               (r >= blend_extent) => decoded_tile'.at[r][c] = decoded_tile.at[r][c]
BlendHFrame ==
    (pc = "blend_h") =>
        /\ canvas' = canvas
        /\ decoded_tile'.rows = decoded_tile.rows /\ decoded_tile'.cols = decoded_tile.cols
        /\ \A r \in TileCoords : \A c \in TileCoords :
               (c >= blend_extent) => decoded_tile'.at[r][c] = decoded_tile.at[r][c]
RawInterior ==
    JustWrote =>
        \A r \in TileCoords : \A c \in TileCoords :
            (r >= blend_extent /\ c >= blend_extent) =>
                canvas.at[LastWritten[1] * vae_scale_factor + r]
                         [LastWritten[2] * vae_scale_factor + c]
                    = DecPixel(LastWritten[1], LastWritten[2], r, c)
C22_BlendFrame == []RawInterior /\ [][BlendVFrame /\ BlendHFrame]_vars
C22_Witness ==
    /\ JustWrote
    /\ Len(blends) >= 2
    /\ blends[Len(blends)] = <<"h", LastWritten[1], LastWritten[2]>>
    /\ blends[Len(blends) - 1] = <<"v", LastWritten[1], LastWritten[2]>>
    /\ canvas.at[LastWritten[1] * vae_scale_factor + blend_extent]
                [LastWritten[2] * vae_scale_factor + blend_extent]
           = DecPixel(LastWritten[1], LastWritten[2], blend_extent, blend_extent)

\* ---- the padded latent ------------------------------------------------------
\* cell (r, c) of the latent forward is given
LatentCell(r, c) == [kind |-> "latent", r |-> r, c |-> c]

\* shape of F.pad(latent, (left, right, top, bottom))
PadShape(left, right, top, bottom) ==
    <<latent_height + top + bottom, latent_width + left + right>>

\* variant: F.pad in its default mode, which fills with zeros
Pad_constant(left, right, top, bottom, r, c) ==
    IF /\ r - top \in 0..(latent_height - 1)
       /\ c - left \in 0..(latent_width - 1)
    THEN LatentCell(r - top, c - left)
    ELSE ZeroPixel
\* cell (r, c) of F.pad(latent, (left, right, top, bottom), mode='replicate'):
\* a cell outside the latent takes the value of the nearest cell of the latent
Pad_replicate(left, right, top, bottom, r, c) ==
    LatentCell(Min(Max(r - top, 0), latent_height - 1),
               Min(Max(c - left, 0), latent_width - 1))

\* line 63
padded_latent_shape == PadShape(0, pad_w, 0, pad_h)
padded_latent(r, c) == Pad_replicate(0, pad_w, 0, pad_h, r, c)

\* the cells around the borders of an axis of length n padded to length padded
EdgeCoords(n, padded) ==
    {x \in {0, n \div 2, n - 1, n, (n + padded) \div 2, padded - 1} : x < padded}

\* C23: the padded latent is the input extended at the bottom by pad_h rows
\* and at the right by pad_w columns only; its cell (r, c) is the input cell
\* (min(r, H-1), min(c, W-1)), so the H x W region is the input itself and no
\* cell is zero-filled.
C23_EdgeReplicate ==
    Planned =>
        /\ padded_latent_shape = <<latent_height + pad_h, latent_width + pad_w>>
        /\ padded_latent_shape = <<padded_h, padded_w>>
        /\ \A r \in EdgeCoords(latent_height, padded_h) :
               \A c \in EdgeCoords(latent_width, padded_w) :
                   /\ padded_latent(r, c)
                          = LatentCell(Min(r, latent_height - 1), Min(c, latent_width - 1))
                   /\ padded_latent(r, c) # ZeroPixel
                   /\ (r < latent_height /\ c < latent_width)
                          => padded_latent(r, c) = LatentCell(r, c)
C23_Witness ==
    /\ Planned
    /\ pad_h > 1 /\ pad_w > 1
    /\ padded_latent(padded_h - 1, padded_w - 1)
           = LatentCell(latent_height - 1, latent_width - 1)
    /\ padded_latent(padded_h - 1, 0) = LatentCell(latent_height - 1, 0)
    /\ padded_latent(0, padded_w - 1) = LatentCell(0, latent_width - 1)

\* C24: cropping a buffer that is already cropped to (H*scale, W*scale) gives
\* the same buffer: crop(crop(canvas)) = crop(canvas) for the canvas after
\* every completed row of tiles (empty, partly and fully composited), and
\* cropping the returned image again returns it unchanged.
C24_IdempotentCrop ==
    /\ (pc \in {"for_i", "crop", "done"}) => CropTo(CropTo(canvas)) = CropTo(canvas)
    /\ Returned => CropTo(final_image) = final_image
C24_Witness ==
    /\ Returned
    /\ pad_h > 0 /\ pad_w > 0
    /\ written # <<>>
    /\ CropTo(canvas) # canvas
    /\ CropTo(final_image) = final_image

\* ---- the exported dynamic loop (src/monolith/export_test_while_loop.py) -----
\* nn.Conv2d(in_channels=3, out_channels=3, kernel_size=3, bias=False):
\* weight of shape (out_channels, in_channels, kernel height, kernel width)
loop_body_weight_shape == <<3, 3, 3, 3>>
\* pads=[1, 1, 1, 1]: [y_begin, x_begin, y_end, x_end]
body_pads == <<1, 1, 1, 1>>

\* variant: the convolution without padding
ConvShape_unpadded(xs, ws, pads) ==
    <<xs[1], ws[1], xs[3] - ws[3] + 1, xs[4] - ws[4] + 1>>
\* shape of op.Conv(x, weight, pads=pads) with unit strides and dilations
ConvShape(xs, ws, pads) ==
    <<xs[1], ws[1],
      xs[3] + pads[1] + pads[3] - ws[3] + 1,
      xs[4] + pads[2] + pads[4] - ws[4] + 1>>

\* loop_op_meta: torch.empty_like(x)
loop_op_meta(xs) == <<xs[1], xs[2], xs[3], xs[4]>>

\* everything forward owns; the loop operator touches none of it
forward_vars ==
    <<pc, geom, i, j, canvas, decoded_tile, final_image, calls, blends, written,
      writers, failed, cur, other>>

Batches == {1, 2}
InputShapes ==
    {<<n, loop_body_weight_shape[2], h, w>> : n \in Batches, h \in 1..MaxSide, w \in 1..MaxSide}

InitLoop ==
    /\ pc = "none"
    /\ latent_height = 0 /\ latent_width = 0
    /\ pad_h = 0 /\ pad_w = 0
    /\ padded_h = 0 /\ padded_w = 0
    /\ padded_sample_h = 0 /\ padded_sample_w = 0
    /\ num_h_steps = 0 /\ num_w_steps = 0
    /\ i = 0 /\ j = 0
    /\ canvas = NoTensor /\ decoded_tile = NoTensor /\ final_image = NoTensor
    /\ calls = <<>> /\ blends = <<>> /\ written = <<>>
    /\ writers = NoTensor
    /\ failed = <<>>
    /\ cur = 1 /\ other = NoFrame
    /\ \E xs \in InputShapes : \E m \in 0..MaxTrip :
           loop = [pc |-> "start", x |-> xs, loop_iterations |-> m,
                   iter_num |-> 0, cond |-> TRUE, x_scan |-> <<>>,
                   final_x |-> <<>>, body_runs |-> 0]

\* op.Loop(loop_iterations, None, x, body=body_graph): the omitted condition
\* input counts as true, x is the initial loop-carried value
LoopStart ==
    /\ loop.pc = "start"
    /\ loop' = [loop EXCEPT !.pc = "test", !.iter_num = 0, !.cond = TRUE,
                            !.x_scan = loop.x]
    /\ UNCHANGED forward_vars

\* variant: the body returns a false condition
LoopBody_cond_false ==
    /\ loop.pc = "test"
    /\ loop.iter_num < loop.loop_iterations /\ loop.cond
    /\ loop' = [loop EXCEPT
                   !.x_scan = ConvShape(loop.x_scan, loop_body_weight_shape, body_pads),
                   !.cond = FALSE,
                   !.iter_num = loop.iter_num + 1,
                   !.body_runs = loop.body_runs + 1]
    /\ UNCHANGED forward_vars
\* one iteration: body_graph(iter_num, cond, x_scan) returns (True, Conv(x_scan))
LoopBody ==
    /\ loop.pc = "test"
    /\ loop.iter_num < loop.loop_iterations /\ loop.cond
    /\ loop' = [loop EXCEPT
                   !.x_scan = ConvShape(loop.x_scan, loop_body_weight_shape, body_pads),
                   !.cond = TRUE,
                   !.iter_num = loop.iter_num + 1,
                   !.body_runs = loop.body_runs + 1]
    /\ UNCHANGED forward_vars

\* the trip count is reached or the condition is false: final_x is returned
LoopExit ==
    /\ loop.pc = "test"
    /\ ~(loop.iter_num < loop.loop_iterations /\ loop.cond)
    /\ loop' = [loop EXCEPT !.pc = "done", !.final_x = loop.x_scan]
    /\ UNCHANGED forward_vars

NextLoop == LoopStart \/ LoopBody \/ LoopExit
SpecLoop == InitLoop /\ [][NextLoop]_vars
\* the runtime executes the operator to its end
FairSpecLoop == SpecLoop /\ WF_vars(NextLoop)

\* C25: for every trip count >= 0 and every input shape the loop runs its body
\* exactly loop_iterations times: the condition the body produces is always
\* true, the loop never leaves before the trip count and it does end; the
\* output has the shape of the input, which is the shape loop_op_meta declares.
LoopInvariant ==
    (loop.pc # "none") =>
        /\ loop.cond = TRUE
        /\ loop.body_runs = loop.iter_num
        /\ loop.body_runs <= loop.loop_iterations
        /\ (loop.pc = "test") => loop.x_scan = loop.x
        /\ (loop.pc = "done") =>
               /\ loop.body_runs = loop.loop_iterations
               /\ loop.final_x = loop.x
               /\ loop.final_x = loop_op_meta(loop.x)
C25_DynamicLoop == []LoopInvariant /\ <>(loop.pc = "done")
C25_Witness ==
    /\ loop.pc = "done"
    /\ loop.loop_iterations = MaxTrip
    /\ loop.body_runs = MaxTrip
    /\ loop.final_x = loop.x
    /\ loop.x[3] = 1 /\ loop.x[4] = MaxSide

\* C26: for every input with H >= 1 and W >= 1 both step counts are >= 1, the
\* transform is invoked at least once, and the returned image is not the
\* untouched zero canvas.
C26_AtLeastOneTile ==
    /\ Planned => (num_h_steps >= 1 /\ num_w_steps >= 1)
    /\ Returned =>
           /\ calls # <<>>
           /\ final_image # Zeros(original_height_out, original_width_out)

\* C27: when the decode returns, every canvas pixel covered by a tile
\* rectangle holds exactly the value written by the row-major-last tile that
\* covers it (largest row index, then largest column index): that tile wrote
\* last, its write stored the blended tile value, and no later step changed
\* the pixel; values of earlier tiles appear only as "existing" operands.
Covers(a, b, y, x) ==
    /\ a * overlap_size * vae_scale_factor <= y
    /\ y < a * overlap_size * vae_scale_factor + tile_sample_size
    /\ b * overlap_size * vae_scale_factor <= x
    /\ x < b * overlap_size * vae_scale_factor + tile_sample_size
Covering(y, x) ==
    {t \in (0..(num_h_steps - 1)) \X (0..(num_w_steps - 1)) : Covers(t[1], t[2], y, x)}
LastCover(y, x) ==
    CHOOSE t \in Covering(y, x) :
        \A u \in Covering(y, x) : u[1] < t[1] \/ (u[1] = t[1] /\ u[2] <= t[2])
HasWritten(t, y, x) ==
    \E k \in 1..Len(writers.at[y][x]) : writers.at[y][x][k] = t
Settled(y, x) ==
    /\ Covering(y, x) # {}
    /\ HasWritten(LastCover(y, x), y, x)
\* (the canvas and the writer history change only at a write: the states right
\* after a write and the returning state cover every canvas the run holds)
LastWriterState ==
  (pc \in {"for_j", "done"}) =>
    \A y \in SampleCoords(canvas.rows) : \A x \in SampleCoords(canvas.cols) :
        /\ (Returned /\ Covering(y, x) # {}) => Settled(y, x)
        /\ Settled(y, x) =>
               LET t == LastCover(y, x)
               IN  /\ writers.at[y][x][Len(writers.at[y][x])] = t
                   /\ AfterHorizontal(canvas.at[y][x],
                                       t[1] * overlap_size, t[2] * overlap_size,
                                       y - t[1] * overlap_size * vae_scale_factor,
                                       x - t[2] * overlap_size * vae_scale_factor)
LastWriterStep ==
    /\ (pc \notin {"setup", "write"}) => canvas' = canvas
    /\ (pc = "write") =>
           \A y \in SampleCoords(canvas.rows) : \A x \in SampleCoords(canvas.cols) :
               /\ InTileRect(y, x) =>
                      canvas'.at[y][x] = decoded_tile.at[y - h_start_sample][x - w_start_sample]
               /\ Settled(y, x) => canvas'.at[y][x] = canvas.at[y][x]
C27_LastWriterWins == []LastWriterState /\ [][LastWriterStep]_vars
C27_Witness ==
    /\ Returned
    /\ num_h_steps >= 2 /\ num_w_steps >= 2
    /\ Cardinality(Covering(overlap_size * vae_scale_factor, overlap_size * vae_scale_factor)) = 4
    /\ Len(writers.at[overlap_size * vae_scale_factor][overlap_size * vae_scale_factor]) = 4
    /\ LastCover(overlap_size * vae_scale_factor, overlap_size * vae_scale_factor) = <<1, 1>>
    /\ canvas.at[overlap_size * vae_scale_factor][overlap_size * vae_scale_factor].b.b
           = DecPixel(overlap_size, overlap_size, 0, 0)

\* C28: blend_extent = (tile_size - overlap_size) * scale_factor = 128, the
\* number of output pixels two adjacent tiles share on an axis: a pixel of a
\* tile lies in its vertical (horizontal) cross-fade strip exactly when the
\* neighbour above (to the left) has written that canvas pixel, and the tile
\* is cross-faded exactly on those pixels.
InStripV(r) == h_step > 0 /\ r < blend_extent
InStripH(c) == w_step > 0 /\ c < blend_extent
C28_StripIsOverlap ==
    (pc = "write") =>
        /\ blend_extent = (tile_latent_size - overlap_size) * vae_scale_factor
        /\ \A r \in TileCoords : \A c \in TileCoords :
               LET y == h_start_sample + r
                   x == w_start_sample + c
               IN  /\ InStripV(r) <=> (i > 0 /\ Covers(i - 1, j, y, x))
                   /\ InStripH(c) <=> (j > 0 /\ Covers(i, j - 1, y, x))
                   /\ InStripV(r) <=> HasWritten(<<i - 1, j>>, y, x)
                   /\ InStripH(c) <=> HasWritten(<<i, j - 1>>, y, x)
                   /\ (InStripV(r) \/ InStripH(c)) <=> (decoded_tile.at[r][c].kind = "lerp")
C28_Witness ==
    /\ pc = "write" /\ i > 0 /\ j > 0
    /\ HasWritten(<<i - 1, j>>, h_start_sample + blend_extent - 1, w_start_sample + blend_extent)
    /\ ~HasWritten(<<i - 1, j>>, h_start_sample + blend_extent, w_start_sample + blend_extent)
    /\ HasWritten(<<i, j - 1>>, h_start_sample + blend_extent, w_start_sample + blend_extent - 1)
    /\ decoded_tile.at[blend_extent - 1][blend_extent].kind = "lerp"
    /\ decoded_tile.at[blend_extent][blend_extent].kind = "dec"

\* C29: with stride overlap_size = 48 >= tile_size / 2, tiles whose indices on
\* an axis differ by 2 or more share no row (column); every canvas pixel is
\* covered by at most two tiles per axis and at most four tiles in all, and is
\* written at most four times.
AxisDisjoint(a, b) ==
    \/ a * overlap_size + tile_latent_size <= b * overlap_size
    \/ b * overlap_size + tile_latent_size <= a * overlap_size
FarTilesDisjoint(steps) ==
    \A a \in 0..(steps - 1) : \A b \in 0..(steps - 1) :
        (a + 2 <= b) => AxisDisjoint(a, b)
C29_BoundedOverlap ==
    Planned =>
        /\ 2 * overlap_size >= tile_latent_size
        /\ FarTilesDisjoint(num_h_steps) /\ FarTilesDisjoint(num_w_steps)
        /\ (pc \in {"for_i", "done"}) =>
               \A y \in SampleCoords(canvas.rows) : \A x \in SampleCoords(canvas.cols) :
                   /\ Cardinality({t[1] : t \in Covering(y, x)}) <= 2
                   /\ Cardinality({t[2] : t \in Covering(y, x)}) <= 2
                   /\ Cardinality(Covering(y, x)) <= 4
                   /\ Len(writers.at[y][x]) <= 4
C29_Witness ==
    /\ Returned
    /\ num_h_steps = 3 /\ num_w_steps = 3
    /\ AxisDisjoint(0, 2) /\ ~AxisDisjoint(0, 1)
    /\ Len(writers.at[overlap_size * vae_scale_factor][overlap_size * vae_scale_factor]) = 4
    /\ Cardinality(Covering(2 * overlap_size * vae_scale_factor,
                            2 * overlap_size * vae_scale_factor)) = 4

\* C30: at every tile position the loop visits, h_step < H and w_step < W:
\* the tile's top-left cell is a cell of the unpadded input, so no tile lies
\* wholly in the padding.
C30_NoTileInPadding ==
    /\ AtTile =>
           /\ h_step < latent_height /\ w_step < latent_width
           /\ padded_latent(h_step, w_step) = LatentCell(h_step, w_step)
    /\ \A k \in 1..Len(calls) :
           calls[k][1] < latent_height /\ calls[k][2] < latent_width
C30_Witness ==
    /\ pc = "decode"
    /\ i = num_h_steps - 1 /\ j = num_w_steps - 1
    /\ pad_h = overlap_size - 1 /\ pad_w = overlap_size - 1
    /\ h_step > 0 /\ w_step > 0
    /\ h_step + tile_latent_size > latent_height
    /\ w_step + tile_latent_size > latent_width

====
